---- MODULE Spec2Model ----
(***************************************************************************)
(* Read path of the snapshot store (silkworm/node/snapshot/snapshot.cpp):  *)
(* one typed snapshot (headers, bodies or transactions) over one segment   *)
(* file and its companion index files.                                     *)
(*                                                                         *)
(* The Decompressor (huffman::Decompressor), the MPH index                 *)
(* (succinct::RecSplitIndex) and the RLP decoders live outside the shown   *)
(* sources; they are modelled from their contracts.  Everything named      *)
(* after a method of snapshot.cpp is translated from that method.          *)
(***************************************************************************)
EXTENDS Integers, Sequences, FiniteSets, TLC

\* ------------------------------------------------------------------ bounds
\* Largest block number (block_from, block_to, header.number, base_data_id).
MaxBlock == 2
\* Largest number of words in a segment file.
MaxWords == 2
\* Largest txn_count stored in a body.
MaxTxnCount == 1
\* uint64_t arithmetic is scaled down to UintBits bits (wrap-around kept).
UintBits == 4

VARIABLES
    kind,          \* snapshot type: "headers" | "bodies" | "transactions"
    seg,           \* the segment file: its words, in order
    seg_mtime,     \* last write time of the segment file
    obj,           \* "none" | "ok" (a Snapshot exists) | "rejected" (constructor threw)
    block_from_,   \* Snapshot::block_from_
    block_to_,     \* Snapshot::block_to_
    decoder_open,  \* decoder_.is_open()
    idx,           \* idx_header_hash_ / idx_body_number_ / idx_txn_hash_ (Null when unset)
    idx2,          \* idx_txn_hash_2_block_ (Null when unset)
    pc,            \* position inside close(): "idle" | "close_index"
    released,      \* resources released by the running / last close(), in order
    last           \* the last call: [op, arg, ret, log]

vars == <<kind, seg, seg_mtime, obj, block_from_, block_to_,
          decoder_open, idx, idx2, pc, released, last>>

\* ------------------------------------------------------------- values
Null == [tag |-> "null"]
NoFile == [tag |-> "nofile"]
None == [tag |-> "none"]
Some(v) == [tag |-> "some", val |-> v]
\* ensure(...) failed / an exception left the call
Throw(what) == [tag |-> "throw", what |-> what]
\* the call left the contract of a collaborator and crashed
Crash == [tag |-> "crash"]
IsSome(r) == r.tag = "some"

UintMod == 2 ^ UintBits
\* a - b on uint64_t
USub(a, b) == (a - b) % UintMod
UAdd(a, b) == (a + b) % UintMod

\* ---------------------------------------------------------- word contents
\* hash_first_byte || rlp(header): a header of the given number
HeaderWord(n) == [t |-> "hdr", number |-> n]
\* a word whose RLP does not decode
BadWord == [t |-> "bad"]
\* a word of length 0
EmptyWord == [t |-> "empty"]
BodyWord(b, c) == [t |-> "body", base_txn_id |-> b, txn_count |-> c]
\* hash_first_byte || sender || envelope; typed envelopes carry a type prefix
TxnWord(s, ty, p) == [t |-> "txn", sender |-> s, typed |-> ty, payload |-> p]
\* 1 + 20 bytes present, the envelope does not decode
BadTxnWord(s) == [t |-> "badtxn", sender |-> s]
\* fewer than 1 + kAddressLength bytes
ShortWord == [t |-> "short"]

HeaderWords == {HeaderWord(n) : n \in 0..MaxBlock} \cup {BadWord, EmptyWord}
\* base_txn_id ranges over the same ids as block numbers
BodyWords == {BodyWord(b, c) : b \in 0..MaxBlock, c \in 0..MaxTxnCount} \cup {BadWord}
TxnWords == {TxnWord(1, FALSE, 1), TxnWord(2, TRUE, 2), BadTxnWord(1), ShortWord}
WordsOf(k) == IF k = "headers" THEN HeaderWords
              ELSE IF k = "bodies" THEN BodyWords ELSE TxnWords
AllWords == HeaderWords \cup BodyWords \cup TxnWords

SeqsUpTo(S, n) == UNION {[1..m -> S] : m \in 0..n}

\* BlockHeader::hash(): injective in the header; 0 is the hash of no header
HeaderHash(h) == h.number + 1
\* Transaction::hash(): injective in the payload; 0 is the hash of no transaction
TxnHash(tx) == tx.payload
Hashes == 0..(MaxBlock + 2)

\* ----------------------------------------------------------- Decompressor
\* size of a word in the compressed stream
EncLen(w) == IF w.t \in {"hdr", "body", "txn"} THEN 2 ELSE 1

RECURSIVE WordStart(_, _)
\* byte offset at which word number i (from 0) starts; i = Len is the end
WordStart(words, i) == IF i = 0 THEN 0 ELSE WordStart(words, i - 1) + EncLen(words[i])

SegSize == WordStart(seg, Len(seg))
MaxOffset == 2 * MaxWords
Offsets == 0..MaxOffset

IsWordStart(off) == \E i \in 0..(Len(seg) - 1) : WordStart(seg, i) = off
IndexOfStart(off) == CHOOSE i \in 0..(Len(seg) - 1) : WordStart(seg, i) = off

\* Iterator::has_next() of an iterator reset to off
has_next(off) == off < SegSize

\* Iterator::next(out): the word at off and the offset of the one after it;
\* fails (FormatError, a std::runtime_error) when off starts no word
it_next(off) ==
    IF IsWordStart(off)
    THEN [ok |-> TRUE, value |-> seg[IndexOfStart(off) + 1],
          next_offset |-> off + EncLen(seg[IndexOfStart(off) + 1])]
    ELSE [ok |-> FALSE, value |-> EmptyWord, next_offset |-> off]

\* --------------------------------------------------------------- MphIndex
\* the domain key hashed by the index of this snapshot's kind
KeyHash(w) == IF w.t = "hdr" THEN HeaderHash(w)
              ELSE IF w.t = "txn" THEN TxnHash(w) ELSE 0

IsMember(hash) == \E i \in 1..Len(seg) : seg[i].t \in {"hdr", "txn"} /\ KeyHash(seg[i]) = hash

\* RecSplitIndex::lookup: the ordinal of a member key; for any other key
\* some ordinal in [0, N): junk picks it
idx_lookup(hash, junk) ==
    IF IsMember(hash)
    THEN (CHOOSE i \in 1..Len(seg) :
              /\ seg[i].t \in {"hdr", "txn"} /\ KeyHash(seg[i]) = hash
              /\ \A j \in 1..(i - 1) : ~(seg[j].t \in {"hdr", "txn"} /\ KeyHash(seg[j]) = hash)) - 1
    ELSE IF Len(seg) = 0 THEN 0 ELSE junk % Len(seg)

\* the outcome of reading the offset table outside [0, N): a crash (UBCrash)
\* or whatever offset the memory holds (the first word, or the end of the file)
UBCrash == 0 - 1
UBOutcomes == {UBCrash, 0, MaxOffset}

\* RecSplitIndex::ordinal_lookup
ordinal_lookup(ord, ub) == IF ord < Len(seg) THEN WordStart(seg, ord) ELSE ub

\* one call made on an index object
IdxCall(name, arg) == [call |-> name, arg |-> arg]

\* --------------------------------------------------------- Snapshot (base)
WordItem(value, offset, position) == [value |-> value, offset |-> offset, position |-> position]
WordItems == [value : AllWords, offset : Offsets, position : 0..MaxWords]

\* next_item handing back the offset it was given instead of the next one
next_item_same_offset(offset) ==
    IF ~has_next(offset) THEN None
    ELSE IF ~it_next(offset).ok THEN None
    ELSE Some(WordItem(it_next(offset).value, offset, 0))

\* Snapshot::next_item
next_item(offset) ==
    IF ~has_next(offset) THEN None
    ELSE IF ~it_next(offset).ok THEN None
    ELSE Some(WordItem(it_next(offset).value, it_next(offset).next_offset, 0))

RECURSIVE for_each_item_loop(_, _, _, _, _)
\* the while loop of Snapshot::for_each_item: it is the iterator's offset,
\* item_offset the current item.offset, calls the items handed to fn so far.
\* fn maps an item to "go", "stop" or "throw".
for_each_item_loop(fn, it, word_count, item_offset, calls) ==
    IF ~has_next(it) THEN [ret |-> Some(TRUE), calls |-> calls]
    ELSE LET nx == it_next(it)
             item == WordItem(nx.value, item_offset, word_count)
             result == fn[item]
         IN IF result = "throw" THEN [ret |-> Throw("fn"), calls |-> Append(calls, item)]
            ELSE IF result = "stop" THEN [ret |-> Some(FALSE), calls |-> Append(calls, item)]
            ELSE for_each_item_loop(fn, nx.next_offset, word_count + 1, nx.next_offset,
                                    Append(calls, item))

\* for_each_item counting the words from 1
for_each_item_count_from_one(fn) == for_each_item_loop(fn, 0, 1, 0, <<>>)

\* for_each_item whose first item does not carry offset 0
for_each_item_stale_offset(fn) == for_each_item_loop(fn, 0, 0, 1, <<>>)

\* Snapshot::for_each_item
for_each_item(fn) == for_each_item_loop(fn, 0, 0, 0, <<>>)

\* ----------------------------------------------------------- HeaderSnapshot
\* rlp::decode(encoded_header, header) on the word without its first byte
rlp_decode_header(value) == IF value.t = "hdr" THEN Some([number |-> value.number]) ELSE None

\* decode_header without the ensure on the header's number
decode_header_unchecked(item) ==
    IF item.value.t = "empty" THEN Throw("hash first byte missing")
    ELSE rlp_decode_header(item.value)

\* HeaderSnapshot::decode_header: Throw (ensure failed), None (decode_ok is
\* false) or Some(header)
decode_header(item) ==
    IF item.value.t = "empty" THEN Throw("hash first byte missing")
    ELSE IF ~IsSome(rlp_decode_header(item.value)) THEN None
    ELSE IF ~(rlp_decode_header(item.value).val.number >= block_from_)
         THEN Throw("number < block_from")
    ELSE rlp_decode_header(item.value)

\* HeaderSnapshot::next_header
next_header(offset) ==
    IF ~IsSome(next_item(offset)) THEN None
    ELSE decode_header(next_item(offset).val)

\* the stop value of a walker that never cancels
NeverStop == 0 - 1

\* a caller's header walker: cancels the scan at the header numbered stop
header_walker(stop, header) == header.number # stop

\* the lambda for_each_header hands to for_each_item
for_each_header_fn(stop) ==
    [item \in WordItems |->
        IF decode_header(item).tag = "throw" THEN "throw"
        ELSE IF ~IsSome(decode_header(item)) THEN "stop"
        ELSE IF header_walker(stop, decode_header(item).val) THEN "go" ELSE "stop"]

\* the records a typed scan handed to its walker, given the items its lambda saw
RECURSIVE Walked(_, _)
Walked(calls, dec) ==
    IF calls = <<>> THEN <<>>
    ELSE IF IsSome(dec[calls[1]]) THEN <<dec[calls[1]].val>> \o Walked(Tail(calls), dec)
    ELSE Walked(Tail(calls), dec)

\* HeaderSnapshot::for_each_header: ret is the bool returned (or the exception
\* that left decode_header), out the headers the walker received
for_each_header(stop) ==
    LET r == for_each_item(for_each_header_fn(stop))
    IN [ret |-> IF r.ret.tag = "throw" THEN decode_header(r.calls[Len(r.calls)]) ELSE r.ret,
        out |-> Walked(r.calls, [item \in WordItems |-> decode_header(item)]),
        log |-> <<>>]

\* header_by_hash without the comparison of the decoded header's hash
header_by_hash_unconfirmed(block_hash, junk, ub) ==
    IF idx = Null THEN [ret |-> None, log |-> <<>>]
    ELSE LET block_header_position == idx_lookup(block_hash, junk)
             block_header_offset == ordinal_lookup(block_header_position, ub)
         IN [ret |-> IF block_header_offset = UBCrash THEN Crash
                     ELSE next_header(block_header_offset),
             log |-> <<IdxCall("lookup", block_hash),
                       IdxCall("ordinal_lookup", block_header_position)>>]

\* HeaderSnapshot::header_by_hash
header_by_hash(block_hash, junk, ub) ==
    IF idx = Null THEN [ret |-> None, log |-> <<>>]
    ELSE LET block_header_position == idx_lookup(block_hash, junk)
             block_header_offset == ordinal_lookup(block_header_position, ub)
             header == IF block_header_offset = UBCrash THEN Crash
                       ELSE next_header(block_header_offset)
         IN [ret |-> IF IsSome(header) /\ HeaderHash(header.val) # block_hash THEN None
                     ELSE header,
             log |-> <<IdxCall("lookup", block_hash),
                       IdxCall("ordinal_lookup", block_header_position)>>]

\* header_by_number taking block_to as part of the range
header_by_number_inclusive(block_height, ub) ==
    IF idx = Null \/ block_height < block_from_ \/ block_height > block_to_
    THEN [ret |-> None, log |-> <<>>]
    ELSE LET block_header_position == USub(block_height, idx.base_data_id)
             block_header_offset == ordinal_lookup(block_header_position, ub)
         IN [ret |-> IF block_header_offset = UBCrash THEN Crash
                     ELSE next_header(block_header_offset),
             log |-> <<IdxCall("base_data_id", block_height),
                       IdxCall("ordinal_lookup", block_header_position)>>]

\* header_by_number taking the block height itself as the ordinal
header_by_number_no_base(block_height, ub) ==
    IF idx = Null \/ block_height < block_from_ \/ block_height >= block_to_
    THEN [ret |-> None, log |-> <<>>]
    ELSE LET block_header_position == block_height
             block_header_offset == ordinal_lookup(block_header_position, ub)
         IN [ret |-> IF block_header_offset = UBCrash THEN Crash
                     ELSE next_header(block_header_offset),
             log |-> <<IdxCall("ordinal_lookup", block_header_position)>>]

\* HeaderSnapshot::header_by_number
header_by_number(block_height, ub) ==
    IF idx = Null \/ block_height < block_from_ \/ block_height >= block_to_
    THEN [ret |-> None, log |-> <<>>]
    ELSE LET block_header_position == USub(block_height, idx.base_data_id)
             block_header_offset == ordinal_lookup(block_header_position, ub)
         IN [ret |-> IF block_header_offset = UBCrash THEN Crash
                     ELSE next_header(block_header_offset),
             log |-> <<IdxCall("base_data_id", block_height),
                       IdxCall("ordinal_lookup", block_header_position)>>]

\* open_fresh keeping an index that is older than the segment
open_any(file) == IF file # NoFile THEN file ELSE Null

\* the index object a reopen_index attaches for the index file it finds on
\* disk (NoFile when there is none): none when the file is missing or older
\* than the segment
open_fresh(file) ==
    IF file # NoFile /\ ~(file.mtime < seg_mtime) THEN file ELSE Null

\* HeaderSnapshot::reopen_index (after its ensure): the members it leaves
header_reopen_index(header_index) == [idx |-> open_fresh(header_index), idx2 |-> Null]

\* ------------------------------------------------------------- BodySnapshot
\* BodySnapshot::decode_body (db::detail::decode_stored_block_body)
decode_body(item) ==
    IF item.value.t = "body"
    THEN Some([base_txn_id |-> item.value.base_txn_id, txn_count |-> item.value.txn_count])
    ELSE None

\* a caller's body walker: cancels the scan at block number stop
body_walker(stop, number, body) == number # stop

\* the lambda for_each_body hands to for_each_item
for_each_body_fn(stop) ==
    [item \in WordItems |->
        IF ~IsSome(decode_body(item)) THEN "throw"
        ELSE IF body_walker(stop, UAdd(block_from_, item.position), decode_body(item).val)
             THEN "go" ELSE "stop"]

\* what the walker of for_each_body receives for an item
BodyCall(item) ==
    IF IsSome(decode_body(item))
    THEN Some([number |-> UAdd(block_from_, item.position), body |-> decode_body(item).val])
    ELSE None

\* BodySnapshot::for_each_body
for_each_body(stop) ==
    LET r == for_each_item(for_each_body_fn(stop))
    IN [ret |-> IF r.ret.tag = "throw" THEN Throw("decode_body") ELSE r.ret,
        out |-> Walked(r.calls, [item \in WordItems |-> BodyCall(item)]),
        log |-> <<>>]

RECURSIVE txs_amount_walk(_, _)
\* the walker of compute_txs_amount run over the bodies it receives:
\* acc = [first_tx_id, last_tx_id, last_txs_amount]
txs_amount_walk(out, acc) ==
    IF out = <<>> THEN acc
    ELSE LET number == out[1].number
             body == out[1].body
             a1 == IF number = block_from_
                   THEN [acc EXCEPT !.first_tx_id = body.base_txn_id] ELSE acc
             a2 == IF number = USub(block_to_, 1)
                   THEN [a1 EXCEPT !.last_tx_id = body.base_txn_id,
                                   !.last_txs_amount = body.txn_count]
                   ELSE a1
         IN txs_amount_walk(Tail(out), a2)

\* BodySnapshot::compute_txs_amount
compute_txs_amount ==
    LET scan == for_each_body(NeverStop)
        acc == txs_amount_walk(scan.out, [first_tx_id |-> 0, last_tx_id |-> 0,
                                          last_txs_amount |-> 0])
    IN [ret |-> IF scan.ret.tag = "throw" THEN scan.ret
                ELSE IF scan.ret # Some(TRUE) THEN Throw("error computing txs amount")
                ELSE IF acc.first_tx_id = 0 /\ acc.last_tx_id = 0
                     THEN Throw("empty body snapshot")
                ELSE Some(<<acc.first_tx_id,
                            USub(UAdd(acc.last_tx_id, acc.last_txs_amount), acc.first_tx_id)>>),
        out |-> scan.out,
        log |-> <<>>]

\* BodySnapshot::next_body.  idx_body_number_ is dereferenced without a test:
\* with no index attached the read is undefined, and ub is its outcome
\* (a crash, or whatever base_data_id the memory holds).
next_body(offset, ub) ==
    IF ~IsSome(next_item(offset)) THEN [ret |-> None, log |-> <<>>]
    ELSE IF ~IsSome(decode_body(next_item(offset).val)) THEN [ret |-> None, log |-> <<>>]
    ELSE LET stored_body == decode_body(next_item(offset).val).val
             base_data_id == IF idx = Null THEN ub ELSE idx.base_data_id
         IN [ret |-> IF base_data_id = UBCrash THEN Crash
                     ELSE IF ~(stored_body.base_txn_id >= base_data_id)
                          THEN Throw("wrong base data ID")
                     ELSE Some(stored_body),
             log |-> <<IdxCall("base_data_id", stored_body.base_txn_id)>>]

\* BodySnapshot::body_by_number
body_by_number(block_height, ub) ==
    IF idx = Null THEN [ret |-> None, log |-> <<>>]
    ELSE LET block_body_position == USub(block_height, idx.base_data_id)
             block_body_offset == ordinal_lookup(block_body_position, ub)
         IN IF block_body_offset = UBCrash
            THEN [ret |-> Crash,
                  log |-> <<IdxCall("base_data_id", block_height),
                            IdxCall("ordinal_lookup", block_body_position)>>]
            ELSE [ret |-> next_body(block_body_offset, ub).ret,
                  log |-> <<IdxCall("base_data_id", block_height),
                            IdxCall("ordinal_lookup", block_body_position)>>
                          \o next_body(block_body_offset, ub).log]

\* BodySnapshot::reopen_index (after its ensure): the members it leaves
body_reopen_index(body_index) == [idx |-> open_fresh(body_index), idx2 |-> Null]

\* ------------------------------------------------------ TransactionSnapshot
Void == [tag |-> "void"]
\* Transaction::from when unset
NoSender == 0
Senders == {1, 2}
\* Transaction{}
EmptyTxn == [from |-> NoSender, typed |-> FALSE, payload |-> 0]

\* the bytes of a word after its first 1 + kAddressLength bytes
TxRlp(value) ==
    IF value.t = "txn" THEN [ok |-> TRUE, typed |-> value.typed, payload |-> value.payload]
    ELSE [ok |-> FALSE, typed |-> FALSE, payload |-> 0]
TxRlps == {TxRlp(w) : w \in TxnWords \ {ShortWord}}

\* TransactionSnapshot::decode_txn: Throw (too short), None (RLP error) or
\* Some(tx); tx.from is the sender slot
decode_txn(item) ==
    IF item.value.t = "short" \/ item.value.t \notin {"txn", "badtxn"}
    THEN Throw("too short record")
    ELSE IF ~TxRlp(item.value).ok THEN None
    ELSE Some([from |-> item.value.sender, typed |-> item.value.typed,
               payload |-> item.value.payload])

\* TransactionSnapshot::next_txn
next_txn(offset) ==
    IF ~IsSome(next_item(offset)) THEN None
    ELSE decode_txn(next_item(offset).val)

\* TransactionSnapshot::txn_by_hash
txn_by_hash(txn_hash, junk, ub) ==
    IF idx = Null THEN [ret |-> None, log |-> <<>>]
    ELSE LET txn_position == idx_lookup(txn_hash, junk)
             txn_offset == ordinal_lookup(txn_position, ub)
             txn == IF txn_offset = UBCrash THEN Crash ELSE next_txn(txn_offset)
         IN [ret |-> IF IsSome(txn) /\ TxnHash(txn.val) # txn_hash THEN None ELSE txn,
             log |-> <<IdxCall("lookup", txn_hash), IdxCall("ordinal_lookup", txn_position)>>]

\* TransactionSnapshot::txn_by_id
txn_by_id(txn_id, ub) ==
    IF idx = Null THEN [ret |-> None, log |-> <<>>]
    ELSE LET txn_position == USub(txn_id, idx.base_data_id)
             txn_offset == ordinal_lookup(txn_position, ub)
         IN [ret |-> IF txn_offset = UBCrash THEN Crash ELSE next_txn(txn_offset),
             log |-> <<IdxCall("base_data_id", txn_id),
                       IdxCall("ordinal_lookup", txn_position)>>]

TxnCall(i, senders_data, tx_rlp) == [i |-> i, senders_data |-> senders_data, tx_rlp |-> tx_rlp]
TxnCalls == [i : 0..MaxWords, senders_data : Senders, tx_rlp : TxRlps]

RECURSIVE for_each_txn_loop(_, _, _, _, _)
\* the for loop of TransactionSnapshot::for_each_txn; walker maps a call to
\* "go", "stop" or "throw"
for_each_txn_loop(walker, i, offset, txn_count, calls) ==
    IF ~(i < txn_count) THEN [ret |-> Void, calls |-> calls]
    ELSE IF ~IsSome(next_item(offset))
         THEN [ret |-> Throw("record not found"), calls |-> calls]
    ELSE IF next_item(offset).val.value.t \notin {"txn", "badtxn"}
         THEN [ret |-> Throw("too short record"), calls |-> calls]
    ELSE LET item == next_item(offset).val
             call == TxnCall(i, item.value.sender, TxRlp(item.value))
             go_on == walker[call]
         IN IF go_on = "throw"
            THEN [ret |-> Throw("walker"), calls |-> Append(calls, call)]
            ELSE IF go_on = "stop" THEN [ret |-> Void, calls |-> Append(calls, call)]
            ELSE for_each_txn_loop(walker, i + 1, item.offset, txn_count, Append(calls, call))

\* for_each_txn starting at the first word instead of the word of the ordinal
for_each_txn_from_start(base_txn_id, txn_count, walker, ub) ==
    IF idx = Null \/ txn_count = 0 THEN [ret |-> Void, calls |-> <<>>, log |-> <<>>]
    ELSE IF ~(base_txn_id >= idx.base_data_id)
         THEN [ret |-> Throw("wrong base data ID"), calls |-> <<>>,
               log |-> <<IdxCall("base_data_id", base_txn_id)>>]
    ELSE [ret |-> for_each_txn_loop(walker, 0, 0, txn_count, <<>>).ret,
          calls |-> for_each_txn_loop(walker, 0, 0, txn_count, <<>>).calls,
          log |-> <<IdxCall("base_data_id", base_txn_id), IdxCall("base_data_id", base_txn_id)>>]

\* TransactionSnapshot::for_each_txn
for_each_txn(base_txn_id, txn_count, walker, ub) ==
    IF idx = Null \/ txn_count = 0 THEN [ret |-> Void, calls |-> <<>>, log |-> <<>>]
    ELSE IF ~(base_txn_id >= idx.base_data_id)
         THEN [ret |-> Throw("wrong base data ID"), calls |-> <<>>,
               log |-> <<IdxCall("base_data_id", base_txn_id)>>]
    ELSE LET first_txn_position == USub(base_txn_id, idx.base_data_id)
             first_txn_offset == ordinal_lookup(first_txn_position, ub)
             lg == <<IdxCall("base_data_id", base_txn_id), IdxCall("base_data_id", base_txn_id),
                     IdxCall("ordinal_lookup", first_txn_position)>>
         IN IF first_txn_offset = UBCrash THEN [ret |-> Crash, calls |-> <<>>, log |-> lg]
            ELSE [ret |-> for_each_txn_loop(walker, 0, first_txn_offset, txn_count, <<>>).ret,
                  calls |-> for_each_txn_loop(walker, 0, first_txn_offset, txn_count, <<>>).calls,
                  log |-> lg]

\* a caller's transaction walker: cancels the scan at its call number stop
txn_walker(stop) == [c \in TxnCalls |-> IF c.i = stop THEN "stop" ELSE "go"]

\* the walker of txn_range and txn_rlp_range: both ensure that the envelope
\* (and, for txn_range, the payload) decodes, and always go on
range_walker == [c \in TxnCalls |-> IF c.tx_rlp.ok THEN "go" ELSE "throw"]

RECURSIVE txn_range_push(_, _)
\* what the walker of txn_range appends to transactions, call after call
txn_range_push(calls, read_senders) ==
    IF calls = <<>> THEN <<>>
    ELSE IF ~calls[1].tx_rlp.ok THEN <<>>
    ELSE << [from |-> IF read_senders THEN calls[1].senders_data ELSE NoSender,
             typed |-> calls[1].tx_rlp.typed, payload |-> calls[1].tx_rlp.payload],
            EmptyTxn >>
         \o txn_range_push(Tail(calls), read_senders)

\* TransactionSnapshot::txn_range
txn_range(base_txn_id, txn_count, read_senders, ub) ==
    LET r == for_each_txn(base_txn_id, txn_count, range_walker, ub)
    IN [ret |-> IF r.ret = Void THEN Some(txn_range_push(r.calls, read_senders)) ELSE r.ret,
        log |-> r.log]

RECURSIVE txn_rlp_range_push(_)
\* what the walker of txn_rlp_range appends to rlp_txs: the payload after the
\* envelope's type prefix
txn_rlp_range_push(calls) ==
    IF calls = <<>> THEN <<>>
    ELSE IF ~calls[1].tx_rlp.ok THEN <<>>
    ELSE << [typed |-> calls[1].tx_rlp.typed, payload |-> calls[1].tx_rlp.payload] >>
         \o txn_rlp_range_push(Tail(calls))

\* TransactionSnapshot::txn_rlp_range
txn_rlp_range(base_txn_id, txn_count, ub) ==
    LET r == for_each_txn(base_txn_id, txn_count, range_walker, ub)
    IN [ret |-> IF r.ret = Void THEN Some(txn_rlp_range_push(r.calls)) ELSE r.ret,
        log |-> r.log]

\* TransactionSnapshot::reopen_index (after its ensure): the members it
\* leaves.  close_index() resets both members, also when only the second
\* index is stale.
txn_reopen_index(tx_hash_index, tx_hash_2_block_index) ==
    LET first == open_fresh(tx_hash_index)
    IN IF tx_hash_2_block_index = NoFile THEN [idx |-> first, idx2 |-> Null]
       ELSE IF tx_hash_2_block_index.mtime < seg_mtime THEN [idx |-> Null, idx2 |-> Null]
       ELSE [idx |-> first, idx2 |-> tx_hash_2_block_index]

\* ------------------------------------------------------------ state machine
Kinds == {"headers", "bodies", "transactions"}
\* the index files reopen_index may find on disk.  Last write times: the
\* segment's is 1, an index file is older (0) or not (1).
IndexFile(mtime, base_data_id) == [tag |-> "index", mtime |-> mtime, base_data_id |-> base_data_id]
IndexFiles == {IndexFile(1, b) : b \in 0..MaxBlock} \cup {IndexFile(0, 0)}
\* the transactions2block index file; it is attached and never read here
Index2Files == {IndexFile(1, 0), IndexFile(0, 0)}
\* keys a caller may query: block numbers, transaction ids, and uint64_t max
Keys == 0..MaxBlock \cup {UintMod - 1}
Counts == 0..MaxWords
\* walkers cancel at a block number, a position or a call number, or never
Stops == {NeverStop} \cup 0..MaxBlock
ItemStops == {NeverStop} \cup 0..(MaxWords - 1)
TxnStops == {NeverStop} \cup 0..(MaxWords - 2)

Call(op, arg, ret, out, log) == [op |-> op, arg |-> arg, ret |-> ret, out |-> out, log |-> log]
\* no call is outstanding
NoCall == Call("none", 0, Void, <<>>, <<>>)

Init ==
    /\ kind \in Kinds
    /\ seg \in SeqsUpTo(WordsOf(kind), MaxWords)
    /\ seg_mtime = 1
    /\ obj = "none"
    /\ block_from_ = 0
    /\ block_to_ = 0
    /\ decoder_open = FALSE
    /\ idx = Null
    /\ idx2 = Null
    /\ pc = "idle"
    /\ released = <<>>
    /\ last = NoCall

\* the ensure of Snapshot::Snapshot refusing an empty range as well
ctor_ensure_strict(block_from, block_to) == block_to > block_from

\* the ensure of Snapshot::Snapshot
ctor_ensure(block_from, block_to) == block_to >= block_from

\* Snapshot::Snapshot(path, block_from, block_to)
Construct ==
    /\ obj = "none" /\ last.op = "none"
    /\ \E block_from \in 0..MaxBlock, block_to \in 0..MaxBlock :
          /\ IF ctor_ensure(block_from, block_to)
             THEN /\ obj' = "ok"
                  /\ block_from_' = block_from
                  /\ block_to_' = block_to
                  /\ last' = Call("Snapshot", <<block_from, block_to>>, Void, <<>>, <<>>)
             ELSE /\ obj' = "rejected"
                  /\ UNCHANGED <<block_from_, block_to_>>
                  /\ last' = Call("Snapshot", <<block_from, block_to>>,
                                  Throw("invalid block range"), <<>>, <<>>)
    /\ UNCHANGED <<kind, seg, seg_mtime, decoder_open, idx, idx2,
                   pc, released>>

\* the caller is between two calls
Idle == obj = "ok" /\ pc = "idle" /\ last.op = "none"

\* the caller takes the outcome of the call it made
Return ==
    /\ obj = "ok" /\ pc = "idle" /\ last.op # "none"
    /\ last' = NoCall
    /\ UNCHANGED <<kind, seg, seg_mtime, obj, block_from_, block_to_,
                   decoder_open, idx, idx2, pc, released>>
\* reads are made on an open segment
Ready(k) == Idle /\ decoder_open /\ kind = k

\* Snapshot::reopen_segment: close_segment(), then decoder_.open()
Call_reopen_segment ==
    /\ Idle
    /\ decoder_open' = TRUE
    /\ last' = Call("reopen_segment", 0, Void, <<>>, <<>>)
    /\ UNCHANGED <<kind, seg, seg_mtime, obj, block_from_, block_to_,
                   idx, idx2, pc, released>>

\* Snapshot::close releasing the index before the segment
close_order_index_first == <<"index", "segment">>

\* the two statements of Snapshot::close, in order
close_order == <<"segment", "index">>

\* close_segment() / close_index()
Release(what) ==
    IF what = "segment"
    THEN decoder_open' = FALSE /\ UNCHANGED <<idx, idx2>>
    ELSE idx' = Null /\ idx2' = Null /\ UNCHANGED decoder_open

\* Snapshot::close, its first statement
Call_close ==
    /\ Idle
    /\ Release(close_order[1])
    /\ released' = <<close_order[1]>>
    /\ pc' = "close_2"
    /\ last' = Call("close", 0, Void, <<>>, <<>>)
    /\ UNCHANGED <<kind, seg, seg_mtime, obj, block_from_, block_to_>>

\* Snapshot::close, its second statement
Close_second ==
    /\ obj = "ok" /\ pc = "close_2"
    /\ Release(close_order[2])
    /\ released' = Append(released, close_order[2])
    /\ pc' = "idle"
    /\ UNCHANGED <<kind, seg, seg_mtime, obj, block_from_, block_to_,
                   last>>

\* HeaderSnapshot / BodySnapshot / TransactionSnapshot ::reopen_index
\* files is what the call finds on disk, members what it leaves attached
reopen_index(k, files, members) ==
    /\ Idle /\ kind = k
    /\ IF ~decoder_open
       THEN /\ last' = Call("reopen_index", files, Throw("segment not open"), <<>>, <<>>)
            /\ UNCHANGED <<idx, idx2>>
       ELSE /\ idx' = members.idx
            /\ idx2' = members.idx2
            /\ last' = Call("reopen_index", files, Void, <<>>, <<>>)
    /\ UNCHANGED <<kind, seg, seg_mtime, obj, block_from_, block_to_,
                   decoder_open, pc, released>>

Call_header_reopen_index ==
    \E file \in {NoFile} \cup IndexFiles :
        reopen_index("headers", <<file, NoFile>>, header_reopen_index(file))

Call_body_reopen_index ==
    \E file \in {NoFile} \cup IndexFiles :
        reopen_index("bodies", <<file, NoFile>>, body_reopen_index(file))

Call_txn_reopen_index ==
    \E file \in {NoFile} \cup IndexFiles, file2 \in {NoFile} \cup Index2Files :
        reopen_index("transactions", <<file, file2>>, txn_reopen_index(file, file2))

\* a read: nothing but the record of the call changes
Read(k, op, arg, ret, out, log) ==
    /\ Ready(k)
    /\ last' = Call(op, arg, ret, out, log)
    /\ UNCHANGED <<kind, seg, seg_mtime, obj, block_from_, block_to_,
                   decoder_open, idx, idx2, pc, released>>

\* a caller's item callback: cancels the scan at position stop
item_walker(stop) == [item \in WordItems |-> IF item.position = stop THEN "stop" ELSE "go"]

RECURSIVE cursor_chain(_, _)
\* a caller chaining next_item from offset, at most fuel times: the values read
cursor_chain(offset, fuel) ==
    IF fuel = 0 \/ ~IsSome(next_item(offset)) THEN <<>>
    ELSE <<next_item(offset).val.value>> \o cursor_chain(next_item(offset).val.offset, fuel - 1)

Call_for_each_item ==
    \E stop \in ItemStops :
        Read(kind, "for_each_item", stop, for_each_item(item_walker(stop)).ret,
             for_each_item(item_walker(stop)).calls, <<>>)

Call_next_item ==
    \E offset \in Offsets : Read(kind, "next_item", offset, next_item(offset), <<>>, <<>>)

Call_cursor_chain ==
    Read(kind, "cursor_chain", 0, Void, cursor_chain(0, MaxWords + 2), <<>>)

Call_for_each_header ==
    \E stop \in Stops :
        Read("headers", "for_each_header", stop, for_each_header(stop).ret,
             for_each_header(stop).out, <<>>)

Call_next_header ==
    \E offset \in Offsets : Read("headers", "next_header", offset, next_header(offset), <<>>, <<>>)

Call_header_by_hash ==
    \E block_hash \in Hashes, junk \in 0..(MaxWords - 1), ub \in UBOutcomes :
        Read("headers", "header_by_hash", block_hash, header_by_hash(block_hash, junk, ub).ret,
             <<>>, header_by_hash(block_hash, junk, ub).log)

Call_header_by_number ==
    \E block_height \in Keys, ub \in UBOutcomes :
        Read("headers", "header_by_number", block_height,
             header_by_number(block_height, ub).ret, <<>>, header_by_number(block_height, ub).log)

Call_for_each_body ==
    \E stop \in Stops :
        Read("bodies", "for_each_body", stop, for_each_body(stop).ret, for_each_body(stop).out,
             <<>>)

Call_compute_txs_amount ==
    Read("bodies", "compute_txs_amount", 0, compute_txs_amount.ret, compute_txs_amount.out, <<>>)

Call_next_body ==
    \E offset \in Offsets, ub \in UBOutcomes :
        Read("bodies", "next_body", offset, next_body(offset, ub).ret, <<>>,
             next_body(offset, ub).log)

Call_body_by_number ==
    \E block_height \in Keys, ub \in UBOutcomes :
        Read("bodies", "body_by_number", block_height, body_by_number(block_height, ub).ret,
             <<>>, body_by_number(block_height, ub).log)

Call_next_txn ==
    \E offset \in Offsets : Read("transactions", "next_txn", offset, next_txn(offset), <<>>, <<>>)

Call_txn_by_hash ==
    \E txn_hash \in Hashes, junk \in 0..(MaxWords - 1), ub \in UBOutcomes :
        Read("transactions", "txn_by_hash", txn_hash, txn_by_hash(txn_hash, junk, ub).ret,
             <<>>, txn_by_hash(txn_hash, junk, ub).log)

Call_txn_by_id ==
    \E txn_id \in Keys, ub \in UBOutcomes :
        Read("transactions", "txn_by_id", txn_id, txn_by_id(txn_id, ub).ret, <<>>,
             txn_by_id(txn_id, ub).log)

Call_for_each_txn ==
    \E base_txn_id \in Keys, txn_count \in Counts, stop \in TxnStops, ub \in UBOutcomes :
        Read("transactions", "for_each_txn", <<base_txn_id, txn_count, stop>>,
             for_each_txn(base_txn_id, txn_count, txn_walker(stop), ub).ret,
             for_each_txn(base_txn_id, txn_count, txn_walker(stop), ub).calls,
             for_each_txn(base_txn_id, txn_count, txn_walker(stop), ub).log)

Call_txn_range ==
    \E base_txn_id \in Keys, txn_count \in Counts, read_senders \in BOOLEAN, ub \in UBOutcomes :
        Read("transactions", "txn_range", <<base_txn_id, txn_count, read_senders>>,
             txn_range(base_txn_id, txn_count, read_senders, ub).ret, <<>>,
             txn_range(base_txn_id, txn_count, read_senders, ub).log)

Call_txn_rlp_range ==
    \E base_txn_id \in Keys, txn_count \in Counts, ub \in UBOutcomes :
        Read("transactions", "txn_rlp_range", <<base_txn_id, txn_count>>,
             txn_rlp_range(base_txn_id, txn_count, ub).ret, <<>>,
             txn_rlp_range(base_txn_id, txn_count, ub).log)

Next ==
    \/ Construct
    \/ Return
    \/ Call_reopen_segment
    \/ Call_close
    \/ Close_second
    \/ Call_header_reopen_index
    \/ Call_body_reopen_index
    \/ Call_txn_reopen_index
    \/ Call_for_each_item
    \/ Call_next_item
    \/ Call_cursor_chain
    \/ Call_for_each_header
    \/ Call_next_header
    \/ Call_header_by_hash
    \/ Call_header_by_number
    \/ Call_for_each_body
    \/ Call_compute_txs_amount
    \/ Call_next_body
    \/ Call_body_by_number
    \/ Call_next_txn
    \/ Call_txn_by_hash
    \/ Call_txn_by_id
    \/ Call_for_each_txn
    \/ Call_txn_range
    \/ Call_txn_rlp_range

Spec == Init /\ [][Next]_vars

\* ------------------------------------------------------------- properties
\* the words a scan of for_each_item handed to its callback
Values(items) == [i \in 1..Len(items) |-> items[i].value]

\* the segment holds a word on which a header or transaction lookup raises a
\* hard error instead of answering
HasHardErrorWord ==
    \E i \in 1..Len(seg) :
        \/ seg[i].t \in {"empty", "short"}
        \/ seg[i].t = "hdr" /\ seg[i].number < block_from_

HashOps == {"header_by_hash", "txn_by_hash"}
RecordHash(r) == IF kind = "headers" THEN HeaderHash(r) ELSE TxnHash(r)

\* C1: a lookup by a hash that no record of the segment has never reports a
\* record, whatever ordinal the index answers: on a segment without corrupt
\* words it returns None; and a record is reported only when its own hash is
\* the queried hash.
C1_HashConfirmation ==
    last.op \in HashOps =>
        /\ IsSome(last.ret) => RecordHash(last.ret.val) = last.arg
        /\ ~IsMember(last.arg) =>
              /\ ~IsSome(last.ret)
              /\ (Len(seg) > 0 /\ ~HasHardErrorWord) => last.ret = None

\* C1 witness: the index answered a non-member hash with the ordinal of a
\* header that decodes, and the lookup returned None.
C1_Witness ==
    /\ last.op = "header_by_hash"
    /\ idx # Null
    /\ ~IsMember(last.arg)
    /\ Len(last.log) = 2
    /\ last.log[2].arg < Len(seg)
    /\ seg[last.log[2].arg + 1].t = "hdr"
    /\ seg[last.log[2].arg + 1].number >= block_from_
    /\ last.ret = None

KeyedOps == {"header_by_hash", "header_by_number", "body_by_number", "txn_by_hash", "txn_by_id"}
Missing(file) == file = NoFile
Stale(file) == file # NoFile /\ file.mtime < seg_mtime

AllHeaders == \A i \in 1..Len(seg) : seg[i].t = "hdr" /\ seg[i].number >= block_from_
AllBodies == \A i \in 1..Len(seg) : seg[i].t = "body"
AllTxns == \A i \in 1..Len(seg) : seg[i].t = "txn"

\* C2: a reopen_index that finds its index file missing or older than the
\* segment attaches no index for it; with no index attached every keyed lookup
\* returns None without reading an index, and the sequential scans hand every
\* record of the segment to their callback.
C2_SegmentOnlyMode ==
    /\ (last.op = "reopen_index" /\ last.ret = Void) =>
          /\ (Missing(last.arg[1]) \/ Stale(last.arg[1])) => idx = Null
          /\ (Missing(last.arg[2]) \/ Stale(last.arg[2])) => idx2 = Null
    /\ (last.op \in KeyedOps /\ idx = Null) => (last.ret = None /\ last.log = <<>>)
    /\ (last.op = "for_each_item" /\ idx = Null /\ last.arg = NeverStop) =>
          (last.ret = Some(TRUE) /\ Values(last.out) = seg)
    /\ (last.op = "for_each_header" /\ idx = Null /\ last.arg = NeverStop /\ AllHeaders) =>
          /\ last.ret = Some(TRUE)
          /\ last.out = [i \in 1..Len(seg) |-> [number |-> seg[i].number]]
    /\ (last.op = "for_each_body" /\ idx = Null /\ last.arg = NeverStop /\ AllBodies) =>
          /\ last.ret = Some(TRUE)
          /\ last.out = [i \in 1..Len(seg) |->
                            [number |-> UAdd(block_from_, i - 1),
                             body |-> [base_txn_id |-> seg[i].base_txn_id,
                                       txn_count |-> seg[i].txn_count]]]

\* C2 witness: reopen_index found an index file older than the segment and
\* left the snapshot without an index.
C2_Witness ==
    /\ last.op = "reopen_index"
    /\ last.ret = Void
    /\ Stale(last.arg[1])
    /\ idx = Null
    /\ Len(seg) = MaxWords

\* C3: chaining next_item from offset 0 reads the words for_each_item hands to
\* its callback: the same values, in the same order, as many.
C3_CursorChaining ==
    /\ last.op = "cursor_chain" =>
          last.out = Values(for_each_item(item_walker(NeverStop)).calls)
    /\ (last.op = "for_each_item" /\ last.arg = NeverStop) =>
          Values(last.out) = cursor_chain(0, MaxWords + 2)

\* C3 witness: a chain over a segment of several different words.
C3_Witness ==
    /\ last.op = "cursor_chain"
    /\ Len(last.out) = MaxWords
    /\ last.out[1] # last.out[2]
    /\ EncLen(last.out[1]) # EncLen(last.out[2])

\* the attached index is the one built for this snapshot's segment
CorrectIndex ==
    /\ idx # Null
    /\ kind \in {"headers", "bodies"} => idx.base_data_id = block_from_
\* the segment holds one record per block of [block_from, block_to)
CoversRange == Len(seg) = block_to_ - block_from_
DenseHeaders ==
    /\ CoversRange
    /\ \A i \in 1..Len(seg) : seg[i] = HeaderWord(block_from_ + i - 1)
InRange(n) == block_from_ <= n /\ n < block_to_

\* C5: header_by_number returns None for every number outside
\* [block_from, block_to) without consulting the index (so for block_from - 1
\* and for block_to); with the segment's index attached it returns the header
\* of that number for block_from and for block_to - 1.
C5_RangeBoundary ==
    last.op = "header_by_number" =>
        /\ ~InRange(last.arg) => (last.ret = None /\ last.log = <<>>)
        /\ (CorrectIndex /\ DenseHeaders /\ InRange(last.arg)
              /\ last.arg \in {block_from_, block_to_ - 1}) =>
              (IsSome(last.ret) /\ last.ret.val.number = last.arg)

\* C5 witness: with the index attached, block_to is asked of a snapshot that
\* holds block_to - 1, and nothing is returned.
C5_Witness ==
    /\ last.op = "header_by_number"
    /\ CorrectIndex /\ DenseHeaders
    /\ block_from_ < block_to_
    /\ last.arg = block_to_
    /\ last.ret = None

\* C9: the constructor rejects block_to < block_from and nothing else, so the
\* range of every Snapshot that exists has block_to >= block_from.
C9_ConstructionGuard ==
    /\ obj = "ok" => block_to_ >= block_from_
    /\ last.op = "Snapshot" =>
          /\ last.arg[2] < last.arg[1] => (obj = "rejected" /\ last.ret.tag = "throw")
          /\ last.arg[2] >= last.arg[1] => obj = "ok"

\* C9 witness: a range with block_to == block_from was accepted.
C9_Witness ==
    /\ last.op = "Snapshot"
    /\ last.arg[1] = last.arg[2]
    /\ last.arg[1] > 0
    /\ obj = "ok"

\* C10 as stated: close() detaches the index before it closes the segment, and
\* in no state of a close() is an index attached to a closed segment.
C10_IndexThenSegment ==
    /\ pc = "close_2" => released = <<"index">>
    /\ last.op = "close" => ~(idx # Null /\ ~decoder_open)

\* C10 amended: close() closes the segment before it detaches the index; when
\* it returns both are released.
C10_SegmentThenIndex ==
    /\ pc = "close_2" => (released = <<"segment">> /\ ~decoder_open)
    /\ (last.op = "close" /\ pc = "idle") =>
          (released = <<"segment", "index">> /\ ~decoder_open /\ idx = Null /\ idx2 = Null)

\* C10 witness: inside close(), the segment is closed and the index is still
\* attached.
C10_Witness ==
    /\ last.op = "close"
    /\ pc = "close_2"
    /\ ~decoder_open
    /\ idx # Null

\* the records the sequential scans deliver
ScanHeaders == for_each_header(NeverStop).out
ScanBodies == for_each_body(NeverStop).out
ScanTxns == for_each_txn(idx.base_data_id, Len(seg), txn_walker(NeverStop), 0).calls
\* the transaction a scan call (i, senders_data, tx_rlp) carries
TxnOfCall(c) == [from |-> c.senders_data, typed |-> c.tx_rlp.typed, payload |-> c.tx_rlp.payload]

\* a keyed lookup of a scanned record returns that record.  body_checked
\* leaves out the bodies whose base_txn_id is below block_from.
LookupMatchesScan(body_checked) ==
    /\ (last.op = "header_by_number" /\ CorrectIndex /\ DenseHeaders /\ InRange(last.arg)) =>
          last.ret = Some(ScanHeaders[last.arg - block_from_ + 1])
    /\ (last.op = "header_by_hash" /\ CorrectIndex /\ DenseHeaders) =>
          \A p \in 1..Len(ScanHeaders) :
              HeaderHash(ScanHeaders[p]) = last.arg => last.ret = Some(ScanHeaders[p])
    /\ (last.op = "body_by_number" /\ CorrectIndex /\ AllBodies /\ CoversRange
          /\ InRange(last.arg)) =>
          LET scanned == ScanBodies[last.arg - block_from_ + 1]
          IN /\ scanned.number = last.arg
             /\ (body_checked => scanned.body.base_txn_id >= block_from_) =>
                   last.ret = Some(scanned.body)
    /\ (last.op = "txn_by_id" /\ idx # Null /\ AllTxns /\ last.arg >= idx.base_data_id
          /\ last.arg - idx.base_data_id < Len(seg)) =>
          last.ret = Some(TxnOfCall(ScanTxns[last.arg - idx.base_data_id + 1]))
    /\ (last.op = "txn_by_hash" /\ idx # Null /\ AllTxns) =>
          \A p \in 1..Len(ScanTxns) :
              TxnHash(TxnOfCall(ScanTxns[p])) = last.arg =>
                  last.ret = Some(TxnOfCall(ScanTxns[p]))

\* C4 as stated: with the segment's index attached, the lookup of every
\* scanned record by its number, hash or id returns that record.
C4_SeqRandomEquivalence == LookupMatchesScan(FALSE)

\* C4 amended: the same for headers and transactions, and for the bodies whose
\* base_txn_id is not below block_from (the base_data_id of the body index);
\* for a body whose base_txn_id is below it body_by_number raises a hard error.
C4_SeqRandomEquivalenceChecked ==
    /\ LookupMatchesScan(TRUE)
    /\ (last.op = "body_by_number" /\ CorrectIndex /\ AllBodies /\ CoversRange
          /\ InRange(last.arg)
          /\ ScanBodies[last.arg - block_from_ + 1].body.base_txn_id < block_from_) =>
          last.ret.tag = "throw"

\* C4 witness: a body of a snapshot that starts above block 0 was looked up by
\* its number and the scanned body was returned.
C4_Witness ==
    /\ last.op = "body_by_number"
    /\ CorrectIndex /\ AllBodies /\ CoversRange
    /\ block_from_ > 0
    /\ InRange(last.arg)
    /\ last.ret = Some(ScanBodies[last.arg - block_from_ + 1].body)

\* the snapshot holds the txn_count records from base_txn_id on
HoldsRange(base_txn_id, txn_count) ==
    /\ idx # Null /\ AllTxns
    /\ base_txn_id >= idx.base_data_id
    /\ base_txn_id - idx.base_data_id + txn_count <= Len(seg)
\* the word of transaction id
WordOfId(id) == seg[id - idx.base_data_id + 1]

\* C6: txn_range(base_txn_id, count, read_senders) returns exactly count
\* entries, entry i being the transaction base_txn_id + i (from taken from the
\* sender slot when read_senders); txn_rlp_range returns exactly count payloads.
C6_RangeHasCountEntries ==
    /\ (last.op = "txn_range" /\ HoldsRange(last.arg[1], last.arg[2])) =>
          /\ IsSome(last.ret)
          /\ Len(last.ret.val) = last.arg[2]
          /\ \A i \in 1..last.arg[2] :
                last.ret.val[i] =
                    [from |-> IF last.arg[3] THEN WordOfId(last.arg[1] + i - 1).sender
                              ELSE NoSender,
                     typed |-> WordOfId(last.arg[1] + i - 1).typed,
                     payload |-> WordOfId(last.arg[1] + i - 1).payload]
    /\ (last.op = "txn_rlp_range" /\ HoldsRange(last.arg[1], last.arg[2])) =>
          (IsSome(last.ret) /\ Len(last.ret.val) = last.arg[2])

RECURSIVE SumTxnCount(_)
SumTxnCount(words) ==
    IF words = <<>> THEN 0 ELSE words[1].txn_count + SumTxnCount(Tail(words))

\* one body per block of the range, the transaction ids contiguous
ContiguousBodies ==
    /\ AllBodies /\ CoversRange
    /\ \A i \in 1..(Len(seg) - 1) :
          seg[i + 1].base_txn_id = seg[i].base_txn_id + seg[i].txn_count

\* C7: over one body per block with contiguous transaction ids,
\* compute_txs_amount returns (first_tx_id, sum of txn_count).
C7_AggregateTotals ==
    (last.op = "compute_txs_amount" /\ ContiguousBodies /\ Len(seg) > 0) =>
        last.ret = Some(<<seg[1].base_txn_id, SumTxnCount(seg)>>)

BaseCheckedOps == {"body_by_number", "txn_by_id", "for_each_txn", "txn_range", "txn_rlp_range"}
\* the domain key of a call on the body and transaction keyed paths
KeyOf(call) == IF call.op \in {"body_by_number", "txn_by_id"} THEN call.arg ELSE call.arg[1]
AsksRecords(call) == call.op \in {"body_by_number", "txn_by_id"} \/ call.arg[2] > 0

\* C8: on the body and transaction keyed paths a key below the attached
\* index's base_data_id is a hard error, raised before any ordinal is looked up.
C8_KeyBelowBaseIsError ==
    (last.op \in BaseCheckedOps /\ idx # Null /\ AsksRecords(last)
       /\ KeyOf(last) < idx.base_data_id) =>
        /\ last.ret.tag = "throw"
        /\ \A i \in 1..Len(last.log) : last.log[i].call # "ordinal_lookup"

\* the callback of a for_each_item call returned false at some word
Cancelled == last.arg \in 0..(Len(seg) - 1)

\* C11: for_each_item hands the words to fn in segment order with position
\* 0, 1, 2, ...; it returns false exactly when fn returned false, and fn is not
\* invoked after that; otherwise fn is invoked once per word and it returns true.
C11_ScanOrderAndStop ==
    last.op = "for_each_item" =>
        /\ Len(last.out) <= Len(seg)
        /\ \A i \in 1..Len(last.out) :
              last.out[i].position = i - 1 /\ last.out[i].value = seg[i]
        /\ (last.ret = Some(FALSE)) <=> Cancelled
        /\ Cancelled => Len(last.out) = last.arg + 1
        /\ ~Cancelled => (last.ret = Some(TRUE) /\ Len(last.out) = Len(seg))

\* C11 witness: fn returned false at the first of several words and the scan
\* ended there with false.
C11_Witness ==
    /\ last.op = "for_each_item"
    /\ last.arg = 0
    /\ Len(seg) = MaxWords
    /\ last.ret = Some(FALSE)
    /\ Len(last.out) = 1

\* C12 as stated: the item handed to fn for a word carries the offset of the
\* word after it, the offset next_item returns for that word, and the word's
\* zero-based position.
C12_ItemCarriesNextOffset ==
    last.op = "for_each_item" =>
        \A i \in 1..Len(last.out) :
            /\ last.out[i].offset = WordStart(seg, i)
            /\ last.out[i].offset = next_item(WordStart(seg, i - 1)).val.offset
            /\ last.out[i].position = i - 1

\* C12 amended: the item handed to fn for a word carries the offset at which
\* that word itself starts (0 for the first word, and for every other word the
\* offset next_item returns for the word before it), and the word's zero-based
\* position.
C12_ItemCarriesOwnOffset ==
    last.op = "for_each_item" =>
        \A i \in 1..Len(last.out) :
            /\ last.out[i].offset = WordStart(seg, i - 1)
            /\ i > 1 => last.out[i].offset = next_item(WordStart(seg, i - 2)).val.offset
            /\ next_item(last.out[i].offset) # None
            /\ next_item(last.out[i].offset).val.value = last.out[i].value
            /\ last.out[i].position = i - 1

\* C12 witness: the second word of a scan was handed to fn with the offset at
\* which it starts.
C12_Witness ==
    /\ last.op = "for_each_item"
    /\ Len(last.out) = MaxWords
    /\ last.out[2].offset = WordStart(seg, 1)
    /\ last.out[2].offset > 0
    /\ last.out[2].offset < WordStart(seg, 2)

\* the index file exists and is not older than the segment
Fresh(file) == file # NoFile /\ ~(file.mtime < seg_mtime)

\* C13: after a reopen_index on an open segment, whatever was attached before,
\* an index is attached exactly when its own file exists and is not older than
\* the segment; for a transaction snapshot this holds for each of its two
\* indices independently of the other.
C13_AttachedIffFresh ==
    (last.op = "reopen_index" /\ last.ret = Void) =>
        /\ (idx # Null) <=> Fresh(last.arg[1])
        /\ (idx2 # Null) <=> Fresh(last.arg[2])

\* the word of a transaction snapshot is long enough to be split
Splittable(w) == w.t \in {"txn", "badtxn"}
\* the call for_each_txn makes on its walker for word number p (from 1) as call i
WalkerCall(i, p) == TxnCall(i, seg[p].sender, TxRlp(seg[p]))

\* C14: for_each_txn(base_txn_id, count, walker) never invokes the walker when
\* no index is attached or count is 0; otherwise it invokes it with
\* i = 0, 1, 2, ..., at most count times, on the consecutive words from the
\* one of ordinal base_txn_id - base_data_id on, never again after the walker
\* returned false, and a record missing at one of the count positions is a
\* hard error: a scan that ends normally without a false made count calls.
C14_TxnScan ==
    last.op = "for_each_txn" =>
        LET base_txn_id == last.arg[1]
            txn_count == last.arg[2]
            stop == last.arg[3]
            n == Len(last.out)
        IN /\ (idx = Null \/ txn_count = 0) => (n = 0 /\ last.ret = Void /\ last.log = <<>>)
           /\ n <= txn_count
           /\ \A k \in 1..n : last.out[k].i = k - 1
           /\ \A k \in 1..(n - 1) : last.out[k].i # stop
           /\ (last.ret = Void /\ idx # Null /\ \A k \in 1..n : last.out[k].i # stop) =>
                 n = txn_count
           /\ (idx # Null /\ txn_count > 0 /\ base_txn_id >= idx.base_data_id
                 /\ base_txn_id - idx.base_data_id < Len(seg)) =>
                 LET ord == base_txn_id - idx.base_data_id
                 IN /\ \A k \in 1..n :
                          ord + k <= Len(seg) /\ last.out[k] = WalkerCall(k - 1, ord + k)
                    /\ ((\A p \in (ord + 1)..Len(seg) : Splittable(seg[p]))
                          /\ ord + txn_count > Len(seg)
                          /\ stop \notin 0..(Len(seg) - ord - 1)) =>
                          (last.ret = Throw("record not found") /\ n = Len(seg) - ord)

\* C14 witness: two records were asked from the last word of the segment on;
\* the walker was invoked once, with i = 0, and the call ended in a hard error.
C14_Witness ==
    /\ last.op = "for_each_txn"
    /\ idx # Null
    /\ last.arg[2] = 2
    /\ last.arg[1] - idx.base_data_id = Len(seg) - 1
    /\ Len(last.out) = 1
    /\ last.out[1].i = 0
    /\ last.ret = Throw("record not found")

\* a word that decodes to a header numbered below block_from
Low(w) == w.t = "hdr" /\ w.number < block_from_
\* a word that decodes to a header of the range
Good(w) == w.t = "hdr" /\ w.number >= block_from_
\* the scan of a for_each_header call reaches word number i (from 1): the words
\* before it are headers on which the walker went on
ScanReaches(i) ==
    /\ i \in 1..Len(seg)
    /\ \A j \in 1..(i - 1) : Good(seg[j]) /\ header_walker(last.arg, seg[j])
LookupOps == {"header_by_hash", "header_by_number"}

\* C15: no header numbered below block_from is ever delivered: for_each_header,
\* next_header, header_by_hash and header_by_number raise a hard error on a
\* word that decodes to such a header; a word whose RLP does not decode yields
\* None from next_header and ends for_each_header with false.
C15_NoHeaderBelowRange ==
    /\ (last.op \in LookupOps \cup {"next_header"} /\ IsSome(last.ret)) =>
          last.ret.val.number >= block_from_
    /\ last.op = "for_each_header" =>
          /\ \A i \in 1..Len(last.out) : last.out[i].number >= block_from_
          /\ \A i \in 1..Len(seg) :
                /\ (ScanReaches(i) /\ Low(seg[i])) =>
                      (last.ret.tag = "throw" /\ Len(last.out) = i - 1)
                /\ (ScanReaches(i) /\ seg[i] = BadWord) =>
                      (last.ret = Some(FALSE) /\ Len(last.out) = i - 1)
    /\ (last.op = "next_header" /\ IsWordStart(last.arg)) =>
          /\ Low(seg[IndexOfStart(last.arg) + 1]) => last.ret.tag = "throw"
          /\ seg[IndexOfStart(last.arg) + 1] = BadWord => last.ret = None
    /\ (last.op \in LookupOps /\ Len(last.log) = 2 /\ last.log[2].arg < Len(seg)) =>
          /\ Low(seg[last.log[2].arg + 1]) => last.ret.tag = "throw"

\* C15 witness: header_by_number found, at the offset of the number asked, a
\* header numbered below block_from and raised the hard error.
C15_Witness ==
    /\ last.op = "header_by_number"
    /\ Len(last.log) = 2
    /\ last.log[2].arg < Len(seg)
    /\ Low(seg[last.log[2].arg + 1])
    /\ last.ret.tag = "throw"

\* the error compute_txs_amount raises for a snapshot without bodies
EmptySnapshotError == Throw("empty body snapshot")

\* C16: compute_txs_amount fails with the empty-snapshot error exactly when its
\* scan yields no records: always on a segment without words, and never when
\* the scan handed it a body, a first and last base_txn_id of 0 included.
C16_EmptyErrorIffNoRecords ==
    last.op = "compute_txs_amount" =>
        /\ Len(seg) = 0 => last.ret = EmptySnapshotError
        /\ last.ret = EmptySnapshotError => last.out = <<>>

\* the calls that only read the snapshot
ReadOps ==
    {"for_each_item", "next_item", "cursor_chain", "for_each_header", "next_header",
     "header_by_hash", "header_by_number", "for_each_body", "compute_txs_amount", "next_body",
     "body_by_number", "next_txn", "txn_by_hash", "txn_by_id", "for_each_txn", "txn_range",
     "txn_rlp_range"}

\* C17: a read operation reads an index (lookup, ordinal_lookup, base_data_id)
\* only while that index is attached; next_body on a body snapshot without an
\* index decodes the body at the offset or returns None, and does not touch
\* the body index.
C17_IndexReadOnlyWhileAttached ==
    (last.op \in ReadOps /\ idx = Null) =>
        /\ last.log = <<>>
        /\ last.ret # Crash
        /\ last.op = "next_body" =>
              IF IsWordStart(last.arg) /\ seg[IndexOfStart(last.arg) + 1].t = "body"
              THEN last.ret = Some([base_txn_id |-> seg[IndexOfStart(last.arg) + 1].base_txn_id,
                                    txn_count |-> seg[IndexOfStart(last.arg) + 1].txn_count])
              ELSE last.ret = None

====
